---- MODULE Spec2Model ----
(***************************************************************************)
(* Model of krita_server/app.py: the three request handlers f_txt2img,     *)
(* f_img2img and f_upscale (and the /config handler read_item).            *)
(*                                                                         *)
(* A request is received (pc moves from "idle" to the handler's name), the *)
(* handler runs as one action, and the transport delivers the response     *)
(* and drops the request-scoped objects.  The wall clock and the created   *)
(* directories persist across requests.                                    *)
(*                                                                         *)
(* Units: cfg_scale is in tenths, denoising_strength in hundredths.        *)
(***************************************************************************)
EXTENDS Integers, Sequences, FiniteSets, TLC

VARIABLES pc, req, opt, tr, clock, dirs

vars == <<pc, req, opt, tr, clock, dirs>>

\* ---------------------------------------------------------------- bounds
MaxClock == 2      \* the wall clock (whole seconds) runs over 0..MaxClock
MaxImages == 2     \* the engine returns at most this many images
NPix == 2          \* sample pixel positions tracked per image

\* ------------------------------------------------------- Python values
\* An Optional field is <<>> (None) or <<v>>.
None == <<>>

Some(v) == <<v>>

\* `a or d` on an Optional request field a whose type has falsy value z.
PyOr(a, d, z) == IF a # None /\ a[1] # z THEN a[1] ELSE d

\* `d if a is None else a`
IfNone(a, d) == IF a = None THEN d ELSE a[1]

\* ----------------------------------------------------------- registries
sd_upscalers == <<"None", "Lanczos", "ESRGAN_4x">>

samplers == <<"Euler a", "Euler", "DDIM">>

\* 0-based index of the name in the registry, -1 when it is not there
\* (the lookup then raises).
IndexOf(seq, name) ==
  IF \E i \in 1..Len(seq) : seq[i] = name
  THEN (CHOOSE i \in 1..Len(seq) : seq[i] = name) - 1
  ELSE -1

get_upscaler_index(name) == IndexOf(sd_upscalers, name)

get_sampler_index(name) == IndexOf(samplers, name)

\* ------------------------------------------------------ Dimension Fitter
\* nearest multiple of 64 to num/den
Round64(num, den) == 64 * ((2 * num + 64 * den) \div (128 * den))

\* <<width, height>>, or <<>> for degenerate source dimensions.
fix_aspect_ratio(base_size, max_size, orig_width, orig_height) ==
  IF orig_width <= 0 \/ orig_height <= 0 THEN <<>>
  ELSE IF orig_width >= orig_height
  THEN LET width == Round64(base_size * orig_width, orig_height)
       IN IF width > max_size
          THEN <<Round64(max_size, 1), Round64(max_size * orig_height, orig_width)>>
          ELSE <<width, Round64(base_size, 1)>>
  ELSE LET height == Round64(base_size * orig_height, orig_width)
       IN IF height > max_size
          THEN <<Round64(max_size * orig_width, orig_height), Round64(max_size, 1)>>
          ELSE <<Round64(base_size, 1), height>>

\* ---------------------------------------------------------------- images
\* An image is its size, its pixel format and the pixels at NPix sample
\* positions; a pixel is a colour level c and an alpha level a (0..255).
Positions == 1..NPix

GenColour(k, i) == 100 + 10 * k + i

\* the k-th image the engine returns (k from 0), at the working size
GenImage(k, w, h) ==
  [w |-> w, h |-> h, fmt |-> "RGB",
   px |-> [i \in Positions |-> [c |-> GenColour(k, i), a |-> 255]]]

\* modules.images.resize_image(0, image, w, h): same content, new size
resize_image(image, w, h) == [image EXCEPT !.w = w, !.h = h]

\* Image.convert("RGB")
convert_RGB(image) ==
  [image EXCEPT !.fmt = "RGB", !.px = [i \in Positions |-> [c |-> image.px[i].c, a |-> 255]]]

SourceSizes == {<<1000, 500>>, <<500, 1000>>, <<512, 512>>}

SourceImage(sz) ==
  [w |-> sz[1], h |-> sz[2], fmt |-> "RGBA",
   px |-> [i \in Positions |-> [c |-> 50 + i, a |-> 255]]]

SourceImages == {SourceImage(sz) : sz \in SourceSizes}

\* one-second file name stamps: f"{int(time.time())}_{i}.png", f"{int(time.time())}.png"
BatchFileName(ts, i) == ToString(ts) \o "_" \o ToString(i) \o ".png"

SingleFileName(ts) == ToString(ts) \o ".png"

\* utils.save_img: writes the image under the directory, returns its path
save_img(image, sample_path, filename) ==
  [path |-> sample_path \o "/" \o filename, name |-> filename, img |-> image]

\* --------------------------------------------------------------- requests
StrFields == {"prompt", "negative_prompt", "sampler_name", "upscaler_name"}

BoolFields == {"use_gfpgan", "tiling", "inpaint_full_res", "downscale_first"}

\* the falsy value of a field's type
Falsy(f) == IF f \in StrFields THEN "" ELSE IF f \in BoolFields THEN FALSE ELSE 0

\* explicit values a client sends for a field
Explicit(f) ==
  CASE f = "prompt" -> {"", "a cat"}
    [] f = "negative_prompt" -> {"", "blurry"}
    [] f = "sampler_name" -> {"", "DDIM", "bogus"}
    [] f = "upscaler_name" -> {"", "None", "Lanczos", "bogus"}
    [] f \in BoolFields -> {FALSE, TRUE}
    [] f = "steps" -> {0, 50}
    [] f = "batch_count" -> {0, 2}
    [] f = "batch_size" -> {0, 2}
    [] f = "cfg_scale" -> {0, 90}
    [] f = "base_size" -> {0, 256}
    [] f = "max_size" -> {0, 512}
    [] f = "mode" -> {0, 1, 2, 3, 5}
    [] f = "mask_blur" -> {0, 8}
    [] f = "inpainting_fill" -> {0, 2}
    [] f = "denoising_strength" -> {0, 50}
    [] f = "seed" -> {0, 42}

\* every optional field absent
BaseReq ==
  [prompt |-> None, negative_prompt |-> None, sampler_name |-> None,
   upscaler_name |-> None, steps |-> None, batch_count |-> None,
   batch_size |-> None, cfg_scale |-> None, base_size |-> None,
   max_size |-> None, mode |-> None, mask_blur |-> None,
   inpainting_fill |-> None, denoising_strength |-> None, seed |-> None,
   use_gfpgan |-> None, tiling |-> None, inpaint_full_res |-> None,
   downscale_first |-> None, orig_width |-> 0, orig_height |-> 0]

\* requests that set one field of fs explicitly, starting from r
OneField(r, fs) ==
  UNION {{[r EXCEPT ![f] = Some(v)] : v \in Explicit(f)} : f \in fs}

Txt2ImgFields ==
  {"prompt", "negative_prompt", "sampler_name", "steps", "batch_count",
   "batch_size", "cfg_scale", "base_size", "max_size", "seed", "use_gfpgan",
   "tiling"}

Txt2ImgSizes == SourceSizes \cup {<<0, 512>>}

Txt2ImgRequests ==
  {[r EXCEPT !.orig_width = sz[1], !.orig_height = sz[2]] :
     r \in {BaseReq} \cup OneField(BaseReq, Txt2ImgFields), sz \in Txt2ImgSizes}

Img2ImgFields ==
  (Txt2ImgFields \cup
   {"upscaler_name", "mask_blur", "inpainting_fill", "denoising_strength",
    "inpaint_full_res", "mode"})

WithMode == OneField(BaseReq, {"mode"})

Img2ImgRequests ==
  {BaseReq} \cup OneField(BaseReq, Img2ImgFields)
  \cup UNION {OneField(r, {"base_size", "upscaler_name"}) : r \in WithMode}

UpscaleRequests ==
  {BaseReq} \cup OneField(BaseReq, {"upscaler_name", "downscale_first"})
  \cup UNION {OneField(r, {"downscale_first"}) :
                r \in OneField(BaseReq, {"upscaler_name"})}

\* --------------------------------------------------------------- profiles
\* load_config()[section]: the defaults of one endpoint, read per request
SamplePath == "krita-out"

Txt2ImgDefault ==
  [sample_path |-> SamplePath, prompts |-> "default prompt",
   negative_prompt |-> "default negative", sampler_name |-> "Euler a",
   steps |-> 20, n_iter |-> 1, batch_size |-> 1, cfg_scale |-> 75,
   seed |-> -1, base_size |-> 512, max_size |-> 768,
   use_gfpgan |-> FALSE, tiling |-> FALSE]

Txt2ImgProfiles ==
  {Txt2ImgDefault, [Txt2ImgDefault EXCEPT !.use_gfpgan = TRUE, !.tiling = TRUE]}

Img2ImgDefault ==
  [sample_path |-> SamplePath, prompts |-> "default prompt",
   negative_prompt |-> "default negative", sampler_name |-> "Euler a",
   steps |-> 20, n_iter |-> 1, batch_size |-> 1, cfg_scale |-> 75,
   seed |-> -1, base_size |-> 512, max_size |-> 768,
   use_gfpgan |-> FALSE, tiling |-> FALSE, mode |-> 0, mask_blur |-> 4,
   inpainting_fill |-> 1, denoising_strength |-> 35, resize_mode |-> 1,
   inpaint_full_res |-> FALSE, upscaler_name |-> "None"]

Img2ImgProfiles ==
  {Img2ImgDefault,
   [Img2ImgDefault EXCEPT !.mode = 1, !.use_gfpgan = TRUE, !.tiling = TRUE,
                          !.inpaint_full_res = TRUE, !.upscaler_name = "Lanczos"]}

UpscaleProfiles ==
  {[sample_path |-> SamplePath, upscaler_name |-> "None", downscale_first |-> FALSE],
   [sample_path |-> SamplePath, upscaler_name |-> "Lanczos", downscale_first |-> TRUE]}

NoOpt == [sample_path |-> ""]

\* ------------------------------------------------------------ environment
\* The engine call either raises or returns n images and an info string.
EngineInfo == "Steps: 20, Sampler: Euler a"

EngineResults ==
  {[ok |-> FALSE, n |-> 0, info |-> ""]}
  \cup {[ok |-> TRUE, n |-> k, info |-> EngineInfo] : k \in 0..MaxImages}

\* What time.time() reads at each save, starting no earlier than c: the
\* clock moves by at most one second from one reading to the next.
SaveTimes(c) ==
  {ts \in [1..MaxImages -> c..MaxClock] :
     /\ ts[1] - c \in {0, 1}
     /\ \A i \in 1..(MaxImages - 1) : ts[i + 1] - ts[i] \in {0, 1}}

\* The mask file: unreadable, or a single-channel image.  Masks are blank,
\* full, or one position set to a level with the rest blank.
MaskLevels == {0, 128, 255}

MaskPixels ==
  {[i \in Positions |-> 0], [i \in Positions |-> 255]}
  \cup {[i \in Positions |-> IF i = p THEN l ELSE 0] :
          p \in Positions, l \in MaskLevels \ {0}}

\* masks of the source's size, and one of another size
MaskFiles(src) ==
  {None} \cup {Some([w |-> src.w, h |-> src.h, px |-> m]) : m \in MaskPixels}
  \cup {Some([w |-> 64, h |-> 64, px |-> [i \in Positions |-> 255]])}

\* ------------------------------------------------------------------ trace
\* What one handler run did: files opened, engine calls and what each came
\* back with, upscaler calls, resizes, directories made, files saved, and
\* the response.
Pending == [status |-> "pending", keys |-> {}, outputs |-> <<>>, info |-> ""]

Raised == [status |-> "error", keys |-> {}, outputs |-> <<>>, info |-> ""]

EmptyTrace ==
  [op |-> "", error |-> "", src |-> None, mask |-> None, opened |-> <<>>,
   engine |-> <<>>, outcome |-> <<>>, resized |-> <<>>, masked |-> 0, makedirs |-> <<>>,
   saved |-> <<>>, upscaled |-> <<>>, response |-> Pending]

\* the handler raised: the exception is the request's outcome
Fail(t, err) == [t EXCEPT !.error = err, !.response = Raised]

\* ------------------------------------------------------------ f_txt2img
\* mutant: the engine's exception is swallowed
EngineRaised_swallowed(res) == FALSE

\* the engine call raised: the exception leaves the handler at once
EngineRaised(res) == ~res.ok

\* the positional arguments of modules.txt2img.txt2img the request decides
Txt2ImgCall(r, o, sampler_index, seed, width, height) ==
  [fn |-> "txt2img",
   prompt |-> PyOr(r.prompt, o.prompts, ""),
   negative_prompt |-> PyOr(r.negative_prompt, o.negative_prompt, ""),
   steps |-> PyOr(r.steps, o.steps, 0),
   sampler_index |-> sampler_index,
   use_gfpgan |-> PyOr(r.use_gfpgan, o.use_gfpgan, FALSE),
   tiling |-> PyOr(r.tiling, o.tiling, FALSE),
   batch_count |-> PyOr(r.batch_count, o.n_iter, 0),
   batch_size |-> PyOr(r.batch_size, o.batch_size, 0),
   cfg_scale |-> PyOr(r.cfg_scale, o.cfg_scale, 0),
   seed |-> seed, height |-> height, width |-> width]

\* the images the engine returned, each resized to (w, h)
ResizeAll(n, width, height, w, h) ==
  [k \in 1..n |-> resize_image(GenImage(k - 1, width, height), w, h)]

\* save_img of every image, the name stamped with the time read at that save
SaveAll(images, sample_path, ts) ==
  [k \in 1..Len(images) |->
     save_img(images[k], sample_path, BatchFileName(ts[k], k - 1))]

\* mutant: the response drops the info string
OutputsInfo_noinfo(saved, info) ==
  [status |-> "body", keys |-> {"outputs"},
   outputs |-> [k \in 1..Len(saved) |-> saved[k].path], info |-> ""]

\* {"outputs": outputs, "info": info}
OutputsInfo(saved, info) ==
  [status |-> "body", keys |-> {"outputs", "info"},
   outputs |-> [k \in 1..Len(saved) |-> saved[k].path], info |-> info]

\* the tail both generate and edit share: makedirs, save, respond
Persist(t, images, o, res, ts, c, d) ==
  LET saved == SaveAll(images, o.sample_path, ts)
  IN [tr |-> [t EXCEPT !.makedirs = <<o.sample_path>>, !.saved = saved,
                       !.response = OutputsInfo(saved, res.info)],
      clock |-> IF Len(images) = 0 THEN c ELSE ts[Len(images)],
      dirs |-> d \cup {o.sample_path}]

Stop(t, c, d) == [tr |-> t, clock |-> c, dirs |-> d]

Txt2ImgRun(r, o, res, ts, c, d) ==
  LET t0 == [EmptyTrace EXCEPT !.op = "txt2img"]
      sampler_index == get_sampler_index(PyOr(r.sampler_name, o.sampler_name, ""))
      seed == IfNone(r.seed, o.seed)
      dims == fix_aspect_ratio(PyOr(r.base_size, o.base_size, 0),
                               PyOr(r.max_size, o.max_size, 0),
                               r.orig_width, r.orig_height)
  IN IF sampler_index < 0 THEN Stop(Fail(t0, "UnknownSampler"), c, d)
     ELSE IF dims = <<>> THEN Stop(Fail(t0, "InvalidDimension"), c, d)
     ELSE LET call == Txt2ImgCall(r, o, sampler_index, seed, dims[1], dims[2])
              t1 == [t0 EXCEPT !.engine = <<call>>, !.outcome = <<res>>]
          IN IF EngineRaised(res) THEN Stop(Fail(t1, "EngineFailure"), c, d)
             ELSE LET images == ResizeAll(res.n, dims[1], dims[2],
                                          r.orig_width, r.orig_height)
                      t2 == [t1 EXCEPT !.resized =
                               [k \in 1..res.n |-> <<r.orig_width, r.orig_height>>]]
                  IN Persist(t2, images, o, res, ts, c, d)

\* ------------------------------------------------------------ f_img2img
\* mode = req.mode or opt["mode"]
ResolveMode(r, o) == PyOr(r.mode, o.mode, 0)

\* if mode == 1: the mask file is opened
LoadsMask(mode) == mode = 1

\* mutant: no remap
RemapMode_identity(mode) == mode

\* if mode == 3: mode = 2
RemapMode(mode) == IF mode = 3 THEN 2 ELSE mode

\* mutant: the crop branch is lost
WorkingDims_alwaysfit(mode, base_size, max_size, orig_width, orig_height) ==
  fix_aspect_ratio(base_size, max_size, orig_width, orig_height)

\* the working width and height
WorkingDims(mode, base_size, max_size, orig_width, orig_height) ==
  IF mode = 2 THEN <<base_size, base_size>>
  ELSE fix_aspect_ratio(base_size, max_size, orig_width, orig_height)

\* if mode == 2 and upscaler_index > 0: image = image.convert("RGB")
EngineImage(mode, upscaler_index, image) ==
  IF mode = 2 /\ upscaler_index > 0 THEN convert_RGB(image) ELSE image

Img2ImgCall(r, o, image, mask, mode, sampler_index, seed, width, height) ==
  [fn |-> "img2img",
   prompt |-> PyOr(r.prompt, o.prompts, ""),
   negative_prompt |-> PyOr(r.negative_prompt, o.negative_prompt, ""),
   image |-> image, mask |-> mask, mode |-> mode,
   steps |-> PyOr(r.steps, o.steps, 0),
   sampler_index |-> sampler_index,
   mask_blur |-> PyOr(r.mask_blur, o.mask_blur, 0),
   inpainting_fill |-> PyOr(r.inpainting_fill, o.inpainting_fill, 0),
   use_gfpgan |-> PyOr(r.use_gfpgan, o.use_gfpgan, FALSE),
   tiling |-> PyOr(r.tiling, o.tiling, FALSE),
   batch_count |-> PyOr(r.batch_count, o.n_iter, 0),
   batch_size |-> PyOr(r.batch_size, o.batch_size, 0),
   cfg_scale |-> PyOr(r.cfg_scale, o.cfg_scale, 0),
   denoising_strength |-> PyOr(r.denoising_strength, o.denoising_strength, 0),
   seed |-> seed, height |-> height, width |-> width,
   resize_mode |-> o.resize_mode,
   inpaint_full_res |-> PyOr(r.inpaint_full_res, o.inpaint_full_res, FALSE)]

\* PIL's paste through a mask: each band is src*m + dst*(255-m), over 255
Blend(s, d, m) == (s * m + d * (255 - m) + 127) \div 255

\* mutant: the paste ignores the mask
remove_not_masked_unmasked(img, mask) ==
  [w |-> img.w, h |-> img.h, fmt |-> "RGBA",
   px |-> [i \in Positions |-> [c |-> img.px[i].c, a |-> img.px[i].a]]]

\* Image.new("RGBA", img.size, (0, 0, 0, 0)), then paste(img, (0, 0), mask=mask)
remove_not_masked(img, mask) ==
  [w |-> img.w, h |-> img.h, fmt |-> "RGBA",
   px |-> [i \in Positions |->
             [c |-> Blend(img.px[i].c, 0, mask.px[i]),
              a |-> Blend(img.px[i].a, 0, mask.px[i])]]]

\* if mode == 1: every resized image goes through remove_not_masked
Composite(mode, images, mask) ==
  IF mode = 1
  THEN [k \in 1..Len(images) |-> remove_not_masked(images[k], mask[1])]
  ELSE images

Img2ImgRun(r, o, src, mf, res, ts, c, d) ==
  LET sampler_index == get_sampler_index(PyOr(r.sampler_name, o.sampler_name, ""))
      seed == IfNone(r.seed, o.seed)
      mode0 == ResolveMode(r, o)
      t0 == [EmptyTrace EXCEPT !.op = "img2img"]
      t1 == [t0 EXCEPT !.src = Some(src), !.opened = <<"src">>]
      t2 == IF LoadsMask(mode0)
            THEN [t1 EXCEPT !.mask = mf, !.opened = <<"src", "mask">>]
            ELSE t1
      mask == t2.mask
      mode == RemapMode(mode0)
      upscaler_index ==
        get_upscaler_index(PyOr(r.upscaler_name, o.upscaler_name, ""))
      base_size == PyOr(r.base_size, o.base_size, 0)
      dims == WorkingDims(mode, base_size, PyOr(r.max_size, o.max_size, 0),
                          src.w, src.h)
      image == EngineImage(mode, upscaler_index, src)
  IN IF sampler_index < 0 THEN Stop(Fail(t0, "UnknownSampler"), c, d)
     ELSE IF LoadsMask(mode0) /\ mf = None THEN Stop(Fail(t2, "MissingMask"), c, d)
     ELSE IF upscaler_index < 0 THEN Stop(Fail(t2, "UnknownUpscaler"), c, d)
     ELSE IF dims = <<>> THEN Stop(Fail(t2, "InvalidDimension"), c, d)
     ELSE LET call == Img2ImgCall(r, o, image, mask, mode, sampler_index, seed,
                                  dims[1], dims[2])
              t3 == [t2 EXCEPT !.engine = <<call>>, !.outcome = <<res>>]
          IN IF EngineRaised(res) THEN Stop(Fail(t3, "EngineFailure"), c, d)
             ELSE LET resized == ResizeAll(res.n, dims[1], dims[2], src.w, src.h)
                      t4 == [t3 EXCEPT !.resized =
                               [k \in 1..res.n |-> <<src.w, src.h>>]]
                  IN IF mode = 1 /\ res.n > 0
                        /\ <<mask[1].w, mask[1].h>> # <<src.w, src.h>>
                     THEN Stop(Fail(t4, "ValueError"), c, d)
                     ELSE LET images == Composite(mode, resized, mask)
                              t5 == [t4 EXCEPT !.masked =
                                       IF mode = 1 THEN res.n ELSE 0]
                          IN Persist(t5, images, o, res, ts, c, d)

\* ------------------------------------------------------------- f_upscale
\* mutant: the sentinel is not recognised
IsNoUpscaler_never(name) == FALSE

\* if upscaler.name == "None": return
IsNoUpscaler(name) == name = "None"

\* {"output": output}
OutputOnly(saved) ==
  [status |-> "body", keys |-> {"output"}, outputs |-> <<saved.path>>,
   info |-> ""]

\* a bare `return`: the response body is null
NullResponse == [status |-> "null", keys |-> {}, outputs |-> <<>>, info |-> ""]

UpscaleRun(r, o, src, ok, t, c, d) ==
  LET image == convert_RGB(src)
      t0 == [EmptyTrace EXCEPT !.op = "upscale", !.src = Some(image),
                               !.opened = <<"src">>]
      upscaler_index ==
        get_upscaler_index(PyOr(r.upscaler_name, o.upscaler_name, ""))
  IN IF upscaler_index < 0 THEN Stop(Fail(t0, "UnknownUpscaler"), c, d)
     ELSE LET name == sd_upscalers[upscaler_index + 1]
          IN IF IsNoUpscaler(name)
             THEN Stop([t0 EXCEPT !.response = NullResponse], c, d)
             ELSE LET down == PyOr(r.downscale_first, o.downscale_first, FALSE)
                      pre == IF down
                             THEN resize_image(image, src.w \div 2, src.h \div 2)
                             ELSE image
                      t1 == [t0 EXCEPT
                               !.resized = IF down
                                           THEN <<<<src.w \div 2, src.h \div 2>>>>
                                           ELSE <<>>,
                               !.upscaled = <<[name |-> name, from |-> <<pre.w, pre.h>>,
                                               w |-> 2 * src.w, h |-> 2 * src.h]>>]
                  IN IF ~ok THEN Stop(Fail(t1, "EngineFailure"), c, d)
                     ELSE LET upscaled == resize_image(pre, 2 * src.w, 2 * src.h)
                              resized == resize_image(upscaled, src.w, src.h)
                              saved == save_img(resized, o.sample_path,
                                                SingleFileName(t))
                          IN [tr |-> [t1 EXCEPT
                                        !.resized = Append(t1.resized, <<src.w, src.h>>),
                                        !.makedirs = <<o.sample_path>>,
                                        !.saved = <<saved>>,
                                        !.response = OutputOnly(saved)],
                              clock |-> t,
                              dirs |-> d \cup {o.sample_path}]

\* ---------------------------------------------------------- state machine
Init ==
  /\ pc = "idle"
  /\ req = BaseReq
  /\ opt = NoOpt
  /\ tr = EmptyTrace
  /\ clock = 0
  /\ dirs = {}

\* the wall clock moves on
Tick ==
  /\ pc = "idle"
  /\ clock < MaxClock
  /\ clock' = clock + 1
  /\ UNCHANGED <<pc, req, opt, tr, dirs>>

\* the transport hands a parsed request to its route's handler
Receive(route, requests) ==
  /\ pc = "idle"
  /\ \E r \in requests : req' = r
  /\ pc' = route
  /\ UNCHANGED <<opt, tr, clock, dirs>>

ReceiveTxt2Img == Receive("txt2img", Txt2ImgRequests)

ReceiveImg2Img == Receive("img2img", Img2ImgRequests)

ReceiveUpscale == Receive("upscale", UpscaleRequests)

Apply(o, out) ==
  /\ opt' = o
  /\ tr' = out.tr
  /\ clock' = out.clock
  /\ dirs' = out.dirs
  /\ pc' = "responded"
  /\ UNCHANGED req

f_txt2img ==
  /\ pc = "txt2img"
  /\ \E o \in Txt2ImgProfiles, res \in EngineResults, ts \in SaveTimes(clock) :
       Apply(o, Txt2ImgRun(req, o, res, ts, clock, dirs))

f_img2img ==
  /\ pc = "img2img"
  /\ \E o \in Img2ImgProfiles, src \in SourceImages, res \in EngineResults,
        ts \in SaveTimes(clock) :
       \E mf \in MaskFiles(src) :
         Apply(o, Img2ImgRun(req, o, src, mf, res, ts, clock, dirs))

f_upscale ==
  /\ pc = "upscale"
  /\ \E o \in UpscaleProfiles, src \in SourceImages, ok \in BOOLEAN,
        t \in {u \in clock..MaxClock : u - clock \in {0, 1}} :
       Apply(o, UpscaleRun(req, o, src, ok, t, clock, dirs))

\* the transport sends the response; the request's objects are dropped
Complete ==
  /\ pc = "responded"
  /\ pc' = "idle"
  /\ req' = BaseReq
  /\ opt' = NoOpt
  /\ tr' = EmptyTrace
  /\ UNCHANGED <<clock, dirs>>

Next ==
  \/ Tick
  \/ ReceiveTxt2Img
  \/ ReceiveImg2Img
  \/ ReceiveUpscale
  \/ f_txt2img
  \/ f_img2img
  \/ f_upscale
  \/ Complete

Spec == Init /\ [][Next]_vars

TypeOK ==
  /\ pc \in {"idle", "txt2img", "img2img", "upscale", "responded"}
  /\ clock \in 0..MaxClock
  /\ dirs \subseteq {SamplePath}

\* ------------------------------------------------------------ properties
Done(op) == pc = "responded" /\ tr.op = op

Called == Len(tr.engine) = 1

\* the upscaler name f_upscale resolves
ResolvedUpscaler == PyOr(req.upscaler_name, opt.upscaler_name, "")

\* C1: in f_img2img, a request with mode=1 and a readable mask reaches the
\* engine with a mask, and a request with mode=0 or mode=3 never opens the
\* mask file and reaches the engine with mask None, whatever the profile.
C1_MaskFollowsRequestMode ==
  Done("img2img") =>
    /\ (req.mode = Some(1) /\ tr.mask # None /\ Called
          => tr.engine[1].mask # None)
    /\ (req.mode \in {Some(0), Some(3)}
          => /\ tr.opened = <<"src">>
             /\ Called => tr.engine[1].mask = None)

\* C2: the engine is never invoked with mode 3; a resolved mode 3 reaches it
\* as mode 2 with mask None and without the mask file having been opened;
\* every other resolved mode reaches it unchanged.
C2_Mode3RemappedAfterMaskDecision ==
  Done("img2img") /\ Called =>
    LET m0 == ResolveMode(req, opt)
        call == tr.engine[1]
    IN /\ call.mode # 3
       /\ m0 = 3 => call.mode = 2 /\ call.mask = None /\ tr.opened = <<"src">>
       /\ m0 # 3 => call.mode = m0

C2_Witness ==
  /\ Done("img2img") /\ Called
  /\ req.mode = Some(3)
  /\ tr.engine[1].mode = 2
  /\ tr.engine[1].mask = None

\* the engine arguments that carry a resolved request field
EngineFields(op) ==
  {"steps", "batch_count", "batch_size", "cfg_scale", "seed", "use_gfpgan",
   "tiling"}
  \cup IF op = "img2img"
       THEN {"mode", "mask_blur", "inpainting_fill", "denoising_strength",
             "inpaint_full_res"}
       ELSE {}

\* C3: an explicit 0 or False in a request field is the value the engine
\* receives for that field (base_size: the side of the crop-mode canvas),
\* never the profile default.
C3_ExplicitFalsyReachesEngine ==
  (Done("txt2img") \/ Done("img2img")) /\ Called =>
    /\ \A f \in EngineFields(tr.op) :
         req[f] = Some(Falsy(f)) => tr.engine[1][f] = Falsy(f)
    /\ (tr.op = "img2img" /\ tr.engine[1].mode = 2 /\ req.base_size = Some(0)
          => tr.engine[1].width = 0)

\* C4: when the resolved upscaler is the sentinel "None", f_upscale returns
\* nothing, without error, having written no file, made no directory,
\* resized nothing and invoked no upscaler.
C4_NoneUpscalerIsNoOp ==
  Done("upscale") /\ ResolvedUpscaler = "None" =>
    /\ tr.response.status = "null"
    /\ tr.error = ""
    /\ tr.saved = <<>>
    /\ tr.makedirs = <<>>
    /\ tr.resized = <<>>
    /\ tr.upscaled = <<>>

C4_Witness ==
  /\ Done("upscale")
  /\ req.upscaler_name = Some("None")
  /\ opt.upscaler_name = "Lanczos"
  /\ tr.response.status = "null"

\* C5: the n images one generate or edit request persists are named
\* {ts}_0.png .. {ts}_{n-1}.png with one ts, whatever the clock does between
\* the saves.
C5_OneTimestampPerRequest ==
  (Done("txt2img") \/ Done("img2img")) /\ tr.response.status = "body" =>
    /\ Len(tr.saved) = tr.outcome[1].n
    /\ \E t \in 0..MaxClock :
         \A k \in 1..Len(tr.saved) : tr.saved[k].name = BatchFileName(t, k - 1)

\* C6 (as stated): every operation that completes with a response body
\* reports the list of output paths and the engine's info string.
C6_EveryBodyHasOutputsAndInfo ==
  pc = "responded" /\ tr.response.status = "body" =>
    /\ {"outputs", "info"} \subseteq tr.response.keys
    /\ tr.response.info = EngineInfo

\* C6 (amended): generate and edit, once the engine has returned, respond
\* with exactly the saved paths under "outputs" and the engine's info string
\* under "info"; upscale, when it is not the no-op, responds with the single
\* saved path under "output" and no info string.
C6_ResponseShape ==
  /\ (Done("txt2img") \/ Done("img2img")) /\ tr.error = "" =>
       /\ tr.response.status = "body"
       /\ tr.response.keys = {"outputs", "info"}
       /\ tr.response.outputs = [k \in 1..Len(tr.saved) |-> tr.saved[k].path]
       /\ Len(tr.saved) = tr.outcome[1].n
       /\ tr.response.info = tr.outcome[1].info
  /\ Done("upscale") /\ tr.error = "" /\ ResolvedUpscaler # "None" =>
       /\ tr.response.status = "body"
       /\ tr.response.keys = {"output"}
       /\ Len(tr.saved) = 1
       /\ tr.response.outputs = <<tr.saved[1].path>>

C6_Witness ==
  /\ Done("upscale")
  /\ tr.response.status = "body"
  /\ tr.response.keys = {"output"}
  /\ Len(tr.upscaled) = 1

\* C7: a resolved mode outside {0, 1, 2, 3} fails the request with
\* InvalidMode: no engine call, no file persisted.
C7_UnknownModeRejected ==
  Done("img2img") /\ ResolveMode(req, opt) \notin 0..3 =>
    /\ tr.error = "InvalidMode"
    /\ tr.engine = <<>>
    /\ tr.saved = <<>>

\* C8: with working mode 1 every persisted image is fully transparent where
\* the mask is 0, visible where the mask is nonzero (alpha = the mask level)
\* and exactly the generated pixel, resized to the source's size, where the
\* mask is fully set (255); in every other working mode the resized engine
\* output is persisted unchanged and no masking step runs.
C8_MaskedCompositing ==
  Done("img2img") /\ tr.response.status = "body" =>
    LET call == tr.engine[1]
        src == tr.src[1]
    IN \A k \in 1..Len(tr.saved) :
         LET gen == resize_image(GenImage(k - 1, call.width, call.height),
                                 src.w, src.h)
             out == tr.saved[k].img
         IN IF call.mode = 1
            THEN /\ <<out.w, out.h>> = <<src.w, src.h>>
                 /\ \A i \in Positions :
                      LET m == tr.mask[1].px[i]
                      IN /\ m = 0 => out.px[i] = [c |-> 0, a |-> 0]
                         /\ m # 0 => out.px[i].a = m
                         /\ m = 255 => out.px[i] = gen.px[i]
            ELSE out = gen /\ tr.masked = 0

C8_Witness ==
  /\ Done("img2img")
  /\ tr.response.status = "body"
  /\ tr.engine[1].mode = 1
  /\ Len(tr.saved) >= 1
  /\ \E i, j \in Positions :
       /\ tr.mask[1].px[i] = 0
       /\ tr.mask[1].px[j] = 255
       /\ tr.saved[1].img.px[i].a = 0
       /\ tr.saved[1].img.px[j].a = 255

\* C9: generate and edit invoke the engine at most once per request, and
\* when that invocation fails the request fails with the engine's error:
\* nothing saved, no directory made, no response body.
C9_EngineFailureIsFatal ==
  Done("txt2img") \/ Done("img2img") =>
    /\ Len(tr.engine) <= 1
    /\ Len(tr.outcome) = Len(tr.engine)
    /\ (Called /\ ~tr.outcome[1].ok
          => /\ tr.error = "EngineFailure"
             /\ tr.response.status = "error"
             /\ tr.saved = <<>>
             /\ tr.makedirs = <<>>)

C9_Witness ==
  /\ Done("img2img")
  /\ Called
  /\ ~tr.outcome[1].ok
  /\ tr.error = "EngineFailure"
  /\ dirs = {}

====
